---- MODULE Spec2Model ----
(***************************************************************************)
(* A model of the DB-API layer of the DynamoDB dialect for SQLAlchemy:     *)
(* the statement compilers of sqla/dynamodb/dialect.py, the Cursor of      *)
(* sqla/dynamodb/dbapi.py and the codec of sqla/dynamodb/utils.py, run     *)
(* against a small model of the store behind the boto3 client.             *)
(***************************************************************************)
EXTENDS Integers, Sequences, FiniteSets, TLC

VARIABLES
    rowcount,       \* Cursor.rowcount
    _description,   \* Cursor._description (an Optional)
    _results,       \* Cursor._results (an Optional)
    _index,         \* Cursor._index
    _closed,        \* Cursor._closed
    tables,         \* the store: table name -> the schema it was created with
    items,          \* the store: table name -> the set of items it holds
    last,           \* the last call made by the caller, what it returned or raised
    comp,           \* the statement last handed to the DDL compiler, and its output
    pure,           \* the function last applied on its own: its argument and result
    fetched         \* the rows the fetches have returned since the last execute,
                    \* if that execute was a query that succeeded (an Optional)

vars ==
    <<rowcount, _description, _results, _index, _closed, tables, items, last, comp,
      pure, fetched>>

cursorVars == <<rowcount, _description, _results, _index, _closed>>

storeVars == <<tables, items>>

----------------------------------------------------------------------------
(* Bounds of the model. *)

\* the most items the store holds at a time, over all its tables
MaxItems == 2

\* the most columns of a table handed to the DDL compiler
MaxCols == 3

\* the most values bound to a statement executed directly on the cursor
MaxParams == 1

----------------------------------------------------------------------------
(* Python values. Every value is a record of the same shape, so that any two *)
(* can be compared: t is the Python type, and s, n or b holds the value.     *)

PyStr(x) == [t |-> "str", s |-> x, n |-> 0, b |-> FALSE]

PyInt(x) == [t |-> "int", s |-> "", n |-> x, b |-> FALSE]

PyBool(x) == [t |-> "bool", s |-> "", n |-> 0, b |-> x]

PyFloat == [t |-> "float", s |-> "1.5", n |-> 0, b |-> FALSE]

PyNone == [t |-> "NoneType", s |-> "", n |-> 0, b |-> FALSE]

\* a list and a dict, whatever they hold
PyList == [t |-> "list", s |-> "", n |-> 0, b |-> FALSE]

PyDict == [t |-> "dict", s |-> "", n |-> 0, b |-> FALSE]

\* Optional[T]: None, or a value
None == [present |-> FALSE, v |-> <<>>]

Some(x) == [present |-> TRUE, v |-> x]

\* the decimal literals the model converts; int() of any other string raises
IntLiterals == <<"0", "1", "2", "3">>

IsIntLiteral(x) == \E i \in 1..Len(IntLiterals) : IntLiterals[i] = x

\* int(x) of a string
ParseInt(x) == (CHOOSE i \in 1..Len(IntLiterals) : IntLiterals[i] = x) - 1

\* str(v) of a Python value
PyToStr(v) ==
    CASE v.t = "str" -> v.s
      [] v.t = "int" -> IF v.n \in 0..(Len(IntLiterals) - 1)
                        THEN IntLiterals[v.n + 1] ELSE "<int>"
      [] v.t = "bool" -> IF v.b THEN "True" ELSE "False"
      [] v.t = "float" -> v.s
      [] OTHER -> "None"

\* sorted(names): the attribute and column names of the model, in lexicographic order
NameOrder == <<"id", "name", "ts">>

Sorted(S) == SelectSeq(NameOrder, LAMBDA x : x \in S)

\* the image of a sequence
Range(q) == {q[i] : i \in 1..Len(q)}

----------------------------------------------------------------------------
(* The codec of sqla/dynamodb/utils.py. A native attribute value is a Python *)
(* dict {tag: value}: here the sequence of its entries in insertion order.   *)

AttrEntry(tag, val) == [tag |-> tag, val |-> val]

\* what a call returns: the exception it raised ("" for none) and its value
Raise(e) == [exc |-> e, v |-> PyNone]

Return(x) == [exc |-> "", v |-> x]

\* int(v)
PyToInt(v) ==
    CASE v.t = "int" -> Return(PyInt(v.n))
      [] v.t = "bool" -> Return(PyInt(IF v.b THEN 1 ELSE 0))
      [] v.t = "str" /\ IsIntLiteral(v.s) -> Return(PyInt(ParseInt(v.s)))
      [] OTHER -> Raise("ValueError")

\* _load: the first entry of the dict decides
_load(data) ==
    IF Len(data) = 0 THEN Raise("ValueError")
    ELSE LET k == data[1].tag
             v == data[1].val
         IN CASE k = "N" /\ v.t \in {"int", "bool", "str"} -> PyToInt(v)
              [] k = "S" -> Return(PyStr(PyToStr(v)))
              [] OTHER -> Raise("ValueError")

\* load: an item (attribute name -> native attribute value) to a Python dict
load(data) ==
    IF \E k \in DOMAIN data : _load(data[k]).exc # ""
    THEN [exc |-> "ValueError", v |-> <<>>]
    ELSE [exc |-> "", v |-> [k \in DOMAIN data |-> _load(data[k]).v]]

\* a _dump that tags every value S
_dump_all_strings(data) ==
    CASE data.t \in {"int", "bool", "str"} ->
            [exc |-> "", v |-> <<AttrEntry("S", PyStr(PyToStr(data)))>>]
      [] OTHER -> [exc |-> "ValueError", v |-> <<>>]

\* _dump of a scalar: isinstance(data, int) holds of an int and of a bool
_dump(data) ==
    CASE data.t \in {"int", "bool"} ->
            [exc |-> "", v |-> <<AttrEntry("N", PyStr(PyToStr(data)))>>]
      [] data.t = "str" -> [exc |-> "", v |-> <<AttrEntry("S", data)>>]
      [] OTHER -> [exc |-> "ValueError", v |-> <<>>]

\* dump: a Python dict of scalars to an item, without the entries that are None
dump(data) ==
    LET kept == {k \in DOMAIN data : data[k].t # "NoneType"}
    IN IF \E k \in kept : _dump(data[k]).exc # ""
       THEN [exc |-> "ValueError", v |-> <<>>]
       ELSE [exc |-> "", v |-> [k \in kept |-> _dump(data[k]).v]]

----------------------------------------------------------------------------
(* The result decoding of sqla/dynamodb/dbapi.py. *)

\* TYPES_DYNAMODB_TO_PY
TYPES_DYNAMODB_TO_PY == [S |-> "str", N |-> "int"]

\* Description.from_dynamodb, without the fields that are always None
from_dynamodb(name, typ) ==
    [name |-> name, type_code |-> TYPES_DYNAMODB_TO_PY[typ], null_ok |-> FALSE]

\* the fields dict of _process_response: its keys ...
FieldNames(its) ==
    {n \in Range(NameOrder) :
        \E i \in 1..Len(its) : n \in DOMAIN its[i] /\ Len(its[i][n]) > 0}

\* a fields dict that keeps the tag of the first item that has the name
FieldType_first_wins(its, n) ==
    LET having == {i \in 1..Len(its) : n \in DOMAIN its[i] /\ Len(its[i][n]) > 0}
        i == CHOOSE j \in having : \A k \in having : j <= k
    IN its[i][n][1].tag

\* ... and the tag it keeps for a name: the last tag of the last item that has one
FieldType(its, n) ==
    LET having == {i \in 1..Len(its) : n \in DOMAIN its[i] /\ Len(its[i][n]) > 0}
        i == CHOOSE j \in having : \A k \in having : k <= j
    IN its[i][n][Len(its[i][n])].tag

\* one result row: the loaded item laid out in the order of names
RowOf(loaded, names) ==
    [j \in 1..Len(names) |->
        IF names[j] \in DOMAIN loaded THEN loaded[names[j]] ELSE PyNone]

\* _process_response: the rows and the description of a response's Items, or the
\* exception raised while decoding them
_process_response(its) ==
    LET names == Sorted(FieldNames(its))
    IN IF \E i \in 1..Len(its) : load(its[i]).exc # ""
       THEN [exc |-> "ValueError", results |-> <<>>, description |-> <<>>]
       ELSE IF \E j \in 1..Len(names) :
                  FieldType(its, names[j]) \notin DOMAIN TYPES_DYNAMODB_TO_PY
       THEN [exc |-> "KeyError", results |-> <<>>, description |-> <<>>]
       ELSE [exc |-> "",
             results |-> [i \in 1..Len(its) |-> RowOf(load(its[i]).v, names)],
             description |->
                 [j \in 1..Len(names) |->
                     from_dynamodb(names[j], FieldType(its, names[j]))]]

----------------------------------------------------------------------------
(* The Cursor of sqla/dynamodb/dbapi.py, as operators on the record of its *)
(* fields.                                                                 *)

\* the fields of the cursor in the current state
Cursor ==
    [rowcount |-> rowcount, _description |-> _description, _results |-> _results,
     _index |-> _index, _closed |-> _closed]

\* the dataclass defaults: the cursor a Connection hands out
NewCursor ==
    [rowcount |-> 0, _description |-> None, _results |-> None,
     _index |-> 0, _closed |-> FALSE]

\* what fetchone, fetchall and execute return: None, one row, or a sequence of rows
RetNone == [kind |-> "None", rows |-> <<>>]

RetRow(r) == [kind |-> "row", rows |-> <<r>>]

RetRows(rs) == [kind |-> "rows", rows |-> rs]

\* what has_table returns
RetBool(b) == [kind |-> "bool", rows |-> << <<PyBool(b)>> >>]

\* an _update_cursor that leaves the position where it is
_update_cursor_keeps_index(c, decoded) ==
    [c EXCEPT !._description = Some(decoded.description),
              !._results = Some(decoded.results),
              !.rowcount = Len(decoded.results)]

\* Cursor._update_cursor, given the decoded response
_update_cursor(c, decoded) ==
    [c EXCEPT !._description = Some(decoded.description),
              !._results = Some(decoded.results),
              !._index = 0,
              !.rowcount = Len(decoded.results)]

\* a fetchone that returns the row and stays on it
fetchone_stays(c) ==
    IF ~c._results.present THEN [cur |-> c, ret |-> RetNone]
    ELSE IF c._index >= Len(c._results.v) THEN [cur |-> c, ret |-> RetNone]
    ELSE [cur |-> c, ret |-> RetRow(c._results.v[c._index + 1])]

\* Cursor.fetchone: the cursor after the call, and what it returned
fetchone(c) ==
    IF ~c._results.present THEN [cur |-> c, ret |-> RetNone]
    ELSE IF c._index >= Len(c._results.v) THEN [cur |-> c, ret |-> RetNone]
    ELSE [cur |-> [c EXCEPT !._index = c._index + 1],
          ret |-> RetRow(c._results.v[c._index + 1])]

\* a fetchall that returns the rows left and stays where it is
fetchall_stays(c) ==
    IF ~c._results.present THEN [cur |-> c, ret |-> RetNone]
    ELSE IF c._index >= Len(c._results.v) THEN [cur |-> c, ret |-> RetRows(<<>>)]
    ELSE [cur |-> c,
          ret |-> RetRows(SubSeq(c._results.v, c._index + 1, Len(c._results.v)))]

\* Cursor.fetchall
fetchall(c) ==
    IF ~c._results.present THEN [cur |-> c, ret |-> RetNone]
    ELSE IF c._index >= Len(c._results.v) THEN [cur |-> c, ret |-> RetRows(<<>>)]
    ELSE LET rows == SubSeq(c._results.v, c._index + 1, Len(c._results.v))
         IN [cur |-> [c EXCEPT !._index = c._index + Len(rows)],
             ret |-> RetRows(rows)]

\* a close that keeps the description
close_keeps_description(c) ==
    [c EXCEPT !._results = None, !._index = 0, !.rowcount = -1, !._closed = TRUE]

\* Cursor.close
close(c) ==
    [c EXCEPT !._results = None, !._index = 0, !._description = None,
              !.rowcount = -1, !._closed = TRUE]

----------------------------------------------------------------------------
(* The statement compilers of sqla/dynamodb/dialect.py. A table is          *)
(* [name, columns], a column [name, type, primary_key]; what a compiler      *)
(* returns is the text handed to Cursor.execute: a JSON document (json.dumps *)
(* of a request, here the request itself) or a PartiQL text (here its verb,  *)
(* its table and the names its placeholders stand for).                      *)

Column(name, type, pk) == [name |-> name, type |-> type, primary_key |-> pk]

Table(name, columns) == [name |-> name, columns |-> columns]

JsonText(obj) == [json |-> TRUE, obj |-> obj]

PartiQL(verb, table, cols) ==
    [json |-> FALSE, query |-> [verb |-> verb, table |-> table, cols |-> cols]]

\* TYPES_SA_TO_DYNAMODB
TYPES_SA_TO_DYNAMODB ==
    [Integer |-> "N", BigInteger |-> "N", SmallInteger |-> "N", Numeric |-> "N",
     Float |-> "N", String |-> "S", Text |-> "S", Enum |-> "S", UUID |-> "S",
     DateTime |-> "S"]

KeySchemaElement(name, keyType) == [AttributeName |-> name, KeyType |-> keyType]

AttributeDefinition(name, attrType) ==
    [AttributeName |-> name, AttributeType |-> attrType]

\* what a compiler returns: the exception it raised ("" for none) and the text
CompileError(e) == [exc |-> e, sql |-> JsonText([Error |-> e])]

Compiled(sql) == [exc |-> "", sql |-> sql]

\* a visit_create_table that declares every column as an attribute
visit_create_table_all_columns(table) ==
    LET pk_columns == SelectSeq(table.columns, LAMBDA col : col.primary_key)
    IN IF Len(pk_columns) = 0 \/ Len(pk_columns) >= 3
       THEN CompileError("AssertionError")
       ELSE IF \E i \in 1..Len(table.columns) :
                  table.columns[i].type \notin DOMAIN TYPES_SA_TO_DYNAMODB
       THEN CompileError("KeyError")
       ELSE Compiled(JsonText(
           [TableName |-> table.name,
            KeySchema |->
                IF Len(pk_columns) = 1
                THEN <<KeySchemaElement(pk_columns[1].name, "HASH")>>
                ELSE <<KeySchemaElement(pk_columns[1].name, "HASH"),
                       KeySchemaElement(pk_columns[2].name, "RANGE")>>,
            AttributeDefinitions |->
                [i \in 1..Len(table.columns) |->
                    AttributeDefinition(table.columns[i].name,
                                        TYPES_SA_TO_DYNAMODB[table.columns[i].type])],
            ProvisionedThroughput |->
                [ReadCapacityUnits |-> 1, WriteCapacityUnits |-> 1]]))

\* a visit_create_table without the two assertions on the number of key columns
visit_create_table_unchecked(table) ==
    LET pk_columns == SelectSeq(table.columns, LAMBDA col : col.primary_key)
    IN IF \E i \in 1..Len(pk_columns) :
              i <= 2 /\ pk_columns[i].type \notin DOMAIN TYPES_SA_TO_DYNAMODB
       THEN CompileError("KeyError")
       ELSE Compiled(JsonText(
           [TableName |-> table.name,
            KeySchema |->
                IF Len(pk_columns) = 1
                THEN <<KeySchemaElement(pk_columns[1].name, "HASH")>>
                ELSE IF Len(pk_columns) = 2
                THEN <<KeySchemaElement(pk_columns[1].name, "HASH"),
                       KeySchemaElement(pk_columns[2].name, "RANGE")>>
                ELSE <<>>,
            AttributeDefinitions |->
                IF Len(pk_columns) \in {1, 2}
                THEN [i \in 1..Len(pk_columns) |->
                        AttributeDefinition(pk_columns[i].name,
                                            TYPES_SA_TO_DYNAMODB[pk_columns[i].type])]
                ELSE <<>>,
            ProvisionedThroughput |->
                [ReadCapacityUnits |-> 1, WriteCapacityUnits |-> 1]]))

\* DynamoDDLCompiler.visit_create_table
visit_create_table(table) ==
    LET pk_columns == SelectSeq(table.columns, LAMBDA col : col.primary_key)
    IN IF Len(pk_columns) = 0 \/ Len(pk_columns) >= 3
       THEN CompileError("AssertionError")
       ELSE IF \E i \in 1..Len(pk_columns) :
                  pk_columns[i].type \notin DOMAIN TYPES_SA_TO_DYNAMODB
       THEN CompileError("KeyError")
       ELSE Compiled(JsonText(
           [TableName |-> table.name,
            KeySchema |->
                IF Len(pk_columns) = 1
                THEN <<KeySchemaElement(pk_columns[1].name, "HASH")>>
                ELSE <<KeySchemaElement(pk_columns[1].name, "HASH"),
                       KeySchemaElement(pk_columns[2].name, "RANGE")>>,
            AttributeDefinitions |->
                [i \in 1..Len(pk_columns) |->
                    AttributeDefinition(pk_columns[i].name,
                                        TYPES_SA_TO_DYNAMODB[pk_columns[i].type])],
            ProvisionedThroughput |->
                [ReadCapacityUnits |-> 1, WriteCapacityUnits |-> 1]]))

\* DynamoDDLCompiler.visit_drop_table
visit_drop_table(table) == Compiled(JsonText([TableName |-> table.name]))

\* DynamoSqlCompiler.visit_insert: INSERT INTO "<table>" VALUE { '<col>': ?, ... }
visit_insert(table, cols) == Compiled(PartiQL("INSERT", table.name, cols))

\* DynamoSqlCompiler.visit_select: SELECT ... FROM "<table>" [WHERE <col> = ? ...]
visit_select(table, cols) == Compiled(PartiQL("SELECT", table.name, cols))

\* a statement of the relational layer: its kind, its table, and the columns and
\* values it binds (the values of an insert, the equalities of a select)
Statement(kind, table, cols, vals) ==
    [kind |-> kind, table |-> table, cols |-> cols, vals |-> vals]

\* the compiler the dialect runs for a statement
compile(stmt) ==
    CASE stmt.kind = "create" -> visit_create_table(stmt.table)
      [] stmt.kind = "drop" -> visit_drop_table(stmt.table)
      [] stmt.kind = "insert" -> visit_insert(stmt.table, stmt.cols)
      [] OTHER -> visit_select(stmt.table, stmt.cols)

----------------------------------------------------------------------------
(* The store behind the boto3 client, as far as the Cursor and the tests     *)
(* use it. A call returns one of a set of outcomes: every call may fail      *)
(* (a ClientError, a network error), and a select returns its items in any   *)
(* order.                                                                    *)

Store == [tables |-> tables, items |-> items]

StoreFailure(st) ==
    [ok |-> FALSE, Items |-> <<>>, tables |-> st.tables, items |-> st.items]

StoreSuccess(its, tbls, itms) ==
    [ok |-> TRUE, Items |-> its, tables |-> tbls, items |-> itms]

Restrict(f, S) == [x \in S |-> f[x]]

\* every order of a finite set
Orderings(S) == {q \in [1..Cardinality(S) -> S] : Range(q) = S}

\* the number of items the store holds
ItemCount(st) ==
    LET RECURSIVE Sum(_)
        Sum(S) == IF S = {} THEN 0
                  ELSE LET x == CHOOSE y \in S : TRUE
                       IN Cardinality(st.items[x]) + Sum(S \ {x})
    IN Sum(DOMAIN st.items)

\* an attribute value the store accepts: one tag, and a value of the tag's type
WellTyped(av) ==
    /\ Len(av) = 1
    /\ \/ av[1].tag = "S" /\ av[1].val.t = "str"
       \/ av[1].tag = "N" /\ av[1].val.t = "str" /\ IsIntLiteral(av[1].val.s)
       \/ av[1].tag = "BOOL" /\ av[1].val.t = "bool"

KeyNames(schema) ==
    {schema.KeySchema[i].AttributeName : i \in 1..Len(schema.KeySchema)}

AttributeTypeOf(schema, n) ==
    (CHOOSE d \in Range(schema.AttributeDefinitions) : d.AttributeName = n).AttributeType

\* an item a table accepts: well typed, with every key attribute, of the key's type
ValidItem(item, schema) ==
    /\ \A n \in DOMAIN item : WellTyped(item[n])
    /\ \A n \in KeyNames(schema) :
          n \in DOMAIN item /\ item[n][1].tag = AttributeTypeOf(schema, n)

SameKey(a, b, schema) == \A n \in KeyNames(schema) : a[n] = b[n]

\* client.create_table(**request)
create_table(st, req) ==
    {StoreFailure(st)} \cup
    IF req.TableName \in DOMAIN st.tables THEN {}
    ELSE {StoreSuccess(<<>>,
            st.tables @@ (req.TableName :>
                [KeySchema |-> req.KeySchema,
                 AttributeDefinitions |-> req.AttributeDefinitions]),
            st.items @@ (req.TableName :> {}))}

\* client.delete_table(**request)
delete_table(st, req) ==
    {StoreFailure(st)} \cup
    IF req.TableName \notin DOMAIN st.tables THEN {}
    ELSE {StoreSuccess(<<>>,
            Restrict(st.tables, DOMAIN st.tables \ {req.TableName}),
            Restrict(st.items, DOMAIN st.items \ {req.TableName}))}

\* client.execute_statement(Statement=..., Parameters=...)
execute_statement(st, req) ==
    LET q == req.Statement
        ps == req.Parameters
    IN {StoreFailure(st)} \cup
       IF \/ q.table \notin DOMAIN st.tables
          \/ Len(ps) # Len(q.cols)
          \/ \E i \in 1..Len(ps) : ~WellTyped(ps[i])
       THEN {}
       ELSE IF q.verb = "INSERT"
       THEN LET item == [n \in Range(q.cols) |->
                            ps[CHOOSE i \in 1..Len(ps) : q.cols[i] = n]]
                schema == st.tables[q.table]
            IN IF /\ ValidItem(item, schema)
                  /\ \A it \in st.items[q.table] : ~SameKey(it, item, schema)
                  /\ ItemCount(st) < MaxItems
               THEN {StoreSuccess(<<>>, st.tables,
                        [st.items EXCEPT ![q.table] = @ \cup {item}])}
               ELSE {}
       ELSE LET found == {it \in st.items[q.table] :
                            \A i \in 1..Len(ps) :
                                q.cols[i] \in DOMAIN it /\ it[q.cols[i]] = ps[i]}
            IN {StoreSuccess(its, st.tables, st.items) : its \in Orderings(found)}

\* Table.put_item(Item=...) by another user of the store
put_item(st, name, item) ==
    LET schema == st.tables[name]
        kept == {it \in st.items[name] : ~SameKey(it, item, schema)}
    IN [st EXCEPT !.items[name] = kept \cup {item}]

\* client.list_tables(): the names of the tables, or a failure
list_tables(st) ==
    {[ok |-> FALSE, TableNames |-> <<>>]}
    \cup {[ok |-> TRUE, TableNames |-> q] : q \in Orderings(DOMAIN st.tables)}

\* client.describe_table(TableName=name): a failure, which is the only outcome
\* for a table that does not exist (ResourceNotFoundException)
describe_table(st, name) ==
    {[ok |-> FALSE, Table |-> <<>>]}
    \cup IF name \in DOMAIN st.tables
         THEN {[ok |-> TRUE, Table |-> st.tables[name]]}
         ELSE {}

----------------------------------------------------------------------------
(* The reflection of sqla/dynamodb/dialect.py, given the store's response. *)

\* DynamoDialect.get_table_names
get_table_names(response) == response.TableNames

\* a has_table that looks for the name among the keys of the response
has_table_in_response(response, table_name) == table_name \in DOMAIN response

\* DynamoDialect.has_table
has_table(response, table_name) == table_name \in Range(get_table_names(response))

\* DynamoDialect.get_pk_constraint, given the table _describe_table returned
get_pk_constraint(table) ==
    IF Len(table.KeySchema) = 1
    THEN [exc |-> "",
          v |-> [constrained_columns |-> <<table.KeySchema[1].AttributeName>>,
                 name |-> "HASH"]]
    ELSE IF Len(table.KeySchema) = 2
    THEN [exc |-> "",
          v |-> [constrained_columns |-> <<table.KeySchema[1].AttributeName,
                                           table.KeySchema[2].AttributeName>>,
                 name |-> "HASH_RANGE"]]
    ELSE [exc |-> "ValueError", v |-> [constrained_columns |-> <<>>, name |-> ""]]

----------------------------------------------------------------------------
(* Cursor.execute. *)

\* the TYPES dict of Cursor.execute
TYPES == [str |-> "S", int |-> "N", bool |-> "BOOL"]

\* the loop that encodes the bound values: {key: str(v)} for each
EncodeParams(parameters) ==
    IF \E i \in 1..Len(parameters) : parameters[i].t \notin DOMAIN TYPES
    THEN [exc |-> "KeyError", v |-> <<>>]
    ELSE [exc |-> "",
          v |-> [i \in 1..Len(parameters) |->
                    <<AttrEntry(TYPES[parameters[i].t],
                                PyStr(PyToStr(parameters[i])))>>]]

\* _ExecuteAdapter.validate_json(sql) succeeds: a JSON object with a Statement
ExecuteAdapterValid(sql) == sql.json /\ "Statement" \in DOMAIN sql.obj

\* _CreateAdapter.validate_json(sql) succeeds: the required keys of CreateTableInput
CreateAdapterValid(sql) ==
    sql.json /\ {"TableName", "KeySchema", "AttributeDefinitions"} \subseteq DOMAIN sql.obj

\* _DropAdapter.validate_json(sql) succeeds: the required key of DeleteTableInput
DropAdapterValid(sql) == sql.json /\ "TableName" \in DOMAIN sql.obj

NoCall(e) == [exc |-> e, call |-> "", req |-> <<>>]

Call(name, req) == [exc |-> "", call |-> name, req |-> req]

\* a dispatch that hands a JSON text of no known shape to DeleteTable
Dispatch_any_json(sql, parameters) ==
    LET params == EncodeParams(parameters)
    IN IF params.exc # "" THEN NoCall(params.exc)
       ELSE IF ExecuteAdapterValid(sql)
       THEN Call("ExecuteStatement",
                 [Statement |-> sql.obj.Statement, Parameters |-> params.v])
       ELSE IF CreateAdapterValid(sql)
       THEN Call("CreateTable", sql.obj)
       ELSE IF sql.json
       THEN Call("DeleteTable", [TableName |-> "t"])
       ELSE NoCall("ValueError")

\* a dispatch that tries the shape of a create first, then of a drop, then of a
\* query
Dispatch_create_first(sql, parameters) ==
    LET params == EncodeParams(parameters)
    IN IF params.exc # "" THEN NoCall(params.exc)
       ELSE IF CreateAdapterValid(sql)
       THEN Call("CreateTable", sql.obj)
       ELSE IF DropAdapterValid(sql)
       THEN Call("DeleteTable", [TableName |-> sql.obj.TableName])
       ELSE IF ExecuteAdapterValid(sql)
       THEN Call("ExecuteStatement",
                 [Statement |-> sql.obj.Statement, Parameters |-> params.v])
       ELSE NoCall("ValueError")

\* the store operation Cursor.execute calls for a text, with its request, or the
\* exception it raises before calling any
Dispatch(sql, parameters) ==
    LET params == EncodeParams(parameters)
    IN IF params.exc # "" THEN NoCall(params.exc)
       ELSE IF ExecuteAdapterValid(sql)
       THEN Call("ExecuteStatement",
                 [Statement |-> sql.obj.Statement, Parameters |-> params.v])
       ELSE IF CreateAdapterValid(sql)
       THEN Call("CreateTable", sql.obj)
       ELSE IF DropAdapterValid(sql)
       THEN Call("DeleteTable", [TableName |-> sql.obj.TableName])
       ELSE NoCall("ValueError")

\* the outcomes the store has for the call
StoreCall(st, d) ==
    CASE d.call = "ExecuteStatement" -> execute_statement(st, d.req)
      [] d.call = "CreateTable" -> create_table(st, d.req)
      [] d.call = "DeleteTable" -> delete_table(st, d.req)
      [] OTHER -> {StoreFailure(st)}

\* the value of self._results as a return value
ReturnResults(c) == IF c._results.present THEN RetRows(c._results.v) ELSE RetNone

Outcome(c, e, ret, calls) == [cur |-> c, exc |-> e, ret |-> ret, calls |-> calls]

\* an execute that takes a failure of the store for a response without items
execute_swallows(c, sql, parameters, out) ==
    LET d == Dispatch(sql, parameters)
    IN IF d.exc # "" THEN Outcome(c, d.exc, RetNone, <<>>)
       ELSE IF d.call = "ExecuteStatement"
       THEN LET decoded == _process_response(out.Items)
            IN IF decoded.exc # ""
               THEN Outcome(c, decoded.exc, RetNone, <<d.call>>)
               ELSE LET updated == _update_cursor(c, decoded)
                    IN Outcome(updated, "", ReturnResults(updated), <<d.call>>)
       ELSE Outcome(c, "", ReturnResults(c), <<d.call>>)

\* Cursor.execute, given the outcome the store has for the call it makes: the
\* cursor after it, the exception it raised ("" for none), what it returned and
\* the store operations it called
execute(c, sql, parameters, out) ==
    LET d == Dispatch(sql, parameters)
    IN IF d.exc # "" THEN Outcome(c, d.exc, RetNone, <<>>)
       ELSE IF ~out.ok THEN Outcome(c, "ClientError", RetNone, <<d.call>>)
       ELSE IF d.call = "ExecuteStatement"
       THEN LET decoded == _process_response(out.Items)
            IN IF decoded.exc # ""
               THEN Outcome(c, decoded.exc, RetNone, <<d.call>>)
               ELSE LET updated == _update_cursor(c, decoded)
                    IN Outcome(updated, "", ReturnResults(updated), <<d.call>>)
       ELSE Outcome(c, "", ReturnResults(c), <<d.call>>)

----------------------------------------------------------------------------
(* The inputs of the model. *)

\* the tables the engine creates, drops, inserts into and selects from
T_id == Table("t", <<Column("id", "String", TRUE)>>)

T_ts_id ==
    Table("t", <<Column("ts", "String", TRUE), Column("name", "String", FALSE),
                 Column("id", "Integer", TRUE)>>)

U_binary == Table("u", <<Column("id", "LargeBinary", TRUE)>>)

U_nokey == Table("u", <<Column("name", "String", FALSE)>>)

U_threekeys ==
    Table("u", <<Column("id", "String", TRUE), Column("name", "String", TRUE),
                 Column("ts", "String", TRUE)>>)

EngineTables == {T_id, T_ts_id, U_binary, U_nokey, U_threekeys}

\* the values bound to statements
ParamValues == {PyStr("1"), PyInt(2), PyBool(TRUE), PyFloat}

\* the lists of bound values: up to MaxParams values, any one of them after
\* strings
ParamLists ==
    {<<>>} \cup {[i \in 1..k |-> IF i < k THEN PyStr("1") ELSE v] :
                    k \in 1..MaxParams, v \in ParamValues}

NoStatement == Statement("none", Table("", <<>>), <<>>, <<>>)

\* the statements executed through the engine, which compiles them
EngineStatements ==
    {Statement("create", tb, <<>>, <<>>) : tb \in EngineTables}
    \cup {Statement("drop", T_id, <<>>, <<>>)}
    \cup {Statement("insert", T_id, <<"id">>, <<v>>) : v \in {PyStr("1"), PyFloat}}
    \cup {Statement("select", T_id, <<>>, <<>>),
          Statement("select", T_id, <<"id">>, <<PyStr("1")>>)}

\* the texts executed directly on the cursor with every list of bound values:
\* {"Statement": "INSERT INTO \"t\" VALUE { 'id': ? }"}, and {}
BoundStatements ==
    {JsonText([Statement |-> PartiQL("INSERT", "t", <<"id">>).query]), JsonText(<<>>)}

\* the texts executed directly on the cursor with no bound value:
\* {"Statement": "SELECT * FROM \"t\""}, the same with the key "TableName" of a
\* drop request, and the same with the keys of the create request of table t
PlainStatements ==
    {JsonText([Statement |-> PartiQL("SELECT", "t", <<>>).query]),
     JsonText([Statement |-> PartiQL("SELECT", "t", <<>>).query, TableName |-> "t"]),
     JsonText([Statement |-> PartiQL("SELECT", "t", <<>>).query, TableName |-> "t",
               KeySchema |-> <<KeySchemaElement("id", "HASH")>>,
               AttributeDefinitions |-> <<AttributeDefinition("id", "S")>>])}

DirectCalls ==
    (BoundStatements \X ParamLists) \cup (PlainStatements \X {<<>>})

\* the items other users of the store put into table t
OtherItems ==
    {[id |-> <<AttrEntry("S", PyStr("2"))>>],
     [id |-> <<AttrEntry("S", PyStr("3"))>>, name |-> <<AttrEntry("S", PyStr("a"))>>],
     [id |-> <<AttrEntry("S", PyStr("3"))>>, name |-> <<AttrEntry("BOOL", PyBool(TRUE))>>]}

----------------------------------------------------------------------------
(* The state machine. *)

\* the record of a call: what was called with what, the exception it raised
\* ("" for none), what it returned, the store operations it called, the store's
\* answer, and the cursor before the call
CallRecord(op, stmt, sql, parameters, e, ret, calls, resp, pre) ==
    [op |-> op, stmt |-> stmt, sql |-> sql, parameters |-> parameters, exc |-> e,
     ret |-> ret, calls |-> calls, resp |-> resp, pre |-> pre]

\* the rows the fetches have returned, in the order of the calls, and whether
\* one of the calls was a fetchall
Fetched(rows, all) == [rows |-> rows, all |-> all]

\* the store's answer to the call Cursor.execute made: its items, or that it raised
Answer(out) == IF out.ok THEN Some(out.Items) ELSE None

NoSql == JsonText(<<>>)

\* no statement is with the compiler, or one is and the compiler has not run yet
Pending == CompileError("pending")

NotCompiled == [stmt |-> NoStatement, out |-> Pending]

\* a function applied on its own: the kind of its argument, its name ("" before
\* it is applied), its argument and what it returned
Applied(kind, fn, arg, out) == [kind |-> kind, fn |-> fn, arg |-> arg, out |-> out]

\* no function is applied on its own
NotApplied == Applied("", "", <<>>, <<>>)

SetCursor(c) ==
    /\ rowcount' = c.rowcount
    /\ _description' = c._description
    /\ _results' = c._results
    /\ _index' = c._index
    /\ _closed' = c._closed

Init ==
    /\ rowcount = NewCursor.rowcount
    /\ _description = NewCursor._description
    /\ _results = NewCursor._results
    /\ _index = NewCursor._index
    /\ _closed = NewCursor._closed
    /\ tables = <<>>
    /\ items = <<>>
    /\ last = CallRecord("cursor", NoStatement, NoSql, <<>>, "", RetNone, <<>>, None,
                         NewCursor)
    /\ comp = NotCompiled
    /\ pure = NotApplied
    /\ fetched = None

\* cursor.execute(sql, parameters)
ExecuteCall(stmt, sql, parameters) ==
    \E out \in StoreCall(Store, Dispatch(sql, parameters)) :
        LET r == execute(Cursor, sql, parameters, out)
        IN /\ SetCursor(r.cur)
           /\ tables' = out.tables
           /\ items' = out.items
           /\ last' = CallRecord("execute", stmt, sql, parameters, r.exc, r.ret,
                                 r.calls, Answer(out), Cursor)
           /\ fetched' = IF r.exc = "" /\ r.calls = <<"ExecuteStatement">>
                         THEN Some(Fetched(<<>>, FALSE)) ELSE None
           /\ UNCHANGED <<comp, pure>>

\* the engine executes a statement: it compiles it and, unless the compiler
\* raised, hands the text and the bound values to cursor.execute
EngineExecute ==
    \E stmt \in EngineStatements :
        LET c == compile(stmt)
        IN IF c.exc # ""
           THEN /\ last' = CallRecord("compile", stmt, NoSql, <<>>, c.exc, RetNone,
                                      <<>>, None, Cursor)
                /\ UNCHANGED <<cursorVars, storeVars, comp, pure, fetched>>
           ELSE ExecuteCall(stmt, c.sql, stmt.vals)

\* the caller executes a text directly on the cursor
CursorExecute ==
    \E call \in DirectCalls : ExecuteCall(NoStatement, call[1], call[2])

\* cursor.fetchone()
Fetchone ==
    LET r == fetchone(Cursor)
    IN /\ SetCursor(r.cur)
       /\ fetched' = IF fetched.present
                     THEN Some(Fetched(fetched.v.rows \o r.ret.rows, fetched.v.all))
                     ELSE None
       /\ last' = CallRecord("fetchone", NoStatement, NoSql, <<>>, "", r.ret, <<>>,
                             None, Cursor)
       /\ UNCHANGED <<storeVars, comp, pure>>

\* cursor.fetchall()
Fetchall ==
    LET r == fetchall(Cursor)
    IN /\ SetCursor(r.cur)
       /\ fetched' = IF fetched.present
                     THEN Some(Fetched(fetched.v.rows \o r.ret.rows, TRUE))
                     ELSE None
       /\ last' = CallRecord("fetchall", NoStatement, NoSql, <<>>, "", r.ret, <<>>,
                             None, Cursor)
       /\ UNCHANGED <<storeVars, comp, pure>>

\* cursor.close()
Close ==
    /\ SetCursor(close(Cursor))
    /\ fetched' = None
    /\ last' = CallRecord("close", NoStatement, NoSql, <<>>, "", RetNone, <<>>, None,
                          Cursor)
    /\ UNCHANGED <<storeVars, comp, pure>>

\* another user of the store puts an item into table t
PutItem ==
    \E item \in OtherItems :
        /\ "t" \in DOMAIN tables
        /\ ValidItem(item, tables["t"])
        /\ ItemCount(put_item(Store, "t", item)) <= MaxItems
        /\ items' = put_item(Store, "t", item).items
        /\ last' = CallRecord("put_item", NoStatement, NoSql, <<>>, "", RetNone, <<>>,
                              None, Cursor)
        /\ UNCHANGED <<cursorVars, tables, comp, pure, fetched>>

\* the names has_table and describe_table are asked about
AskedNames == {"t", "u"}

\* the record of a call that reads the store's catalogue
CatalogCall(op, name, ok, ret, call) ==
    CallRecord(op, Statement(op, Table(name, <<>>), <<>>, <<>>), NoSql, <<>>,
               IF ok THEN "" ELSE "ClientError", ret, <<call>>,
               IF ok THEN Some(<<>>) ELSE None, Cursor)

\* dialect.has_table(connection, name)
HasTable ==
    \E name \in AskedNames, out \in list_tables(Store) :
        /\ last' = CatalogCall("has_table", name, out.ok,
                                IF out.ok THEN RetBool(has_table(out, name))
                                ELSE RetNone,
                                "ListTables")
        /\ UNCHANGED <<cursorVars, storeVars, comp, pure, fetched>>

\* dialect._describe_table(connection, name)
DescribeTable ==
    \E name \in AskedNames : \E out \in describe_table(Store, name) :
        /\ last' = CatalogCall("describe_table", name, out.ok, RetNone,
                                "DescribeTable")
        /\ UNCHANGED <<cursorVars, storeVars, comp, pure, fetched>>

\* connection.close(): the class defines no close of its own, so the call runs
\* whatever it inherits on an object the inherited constructor never set up; it
\* returns or raises, and either way it knows nothing of the client or the cursors
ConnectionClose ==
    \E e \in {"", "AttributeError"} :
        /\ last' = CallRecord("connection_close", NoStatement, NoSql, <<>>, e, RetNone,
                              <<>>, None, Cursor)
        /\ UNCHANGED <<cursorVars, storeVars, comp, pure, fetched>>

Next ==
    \/ ConnectionClose
    \/ HasTable
    \/ DescribeTable
    \/ EngineExecute
    \/ CursorExecute
    \/ Fetchone
    \/ Fetchall
    \/ Close
    \/ PutItem

Spec == Init /\ [][Next]_vars

----------------------------------------------------------------------------
(* The DDL compiler on its own: every table of up to MaxCols columns is     *)
(* handed to it, to be created or dropped.                                  *)

ColumnTypes == {"String", "Integer", "LargeBinary", "Boolean"}

AllColumns ==
    {Column(n, ty, pk) : n \in Range(NameOrder), ty \in ColumnTypes, pk \in BOOLEAN}

\* the column lists of a table: the names of its columns are distinct
AllColumnLists ==
    {cols \in UNION {[1..k -> AllColumns] : k \in 0..MaxCols} :
        \A i, j \in 1..Len(cols) : cols[i].name = cols[j].name => i = j}

AllTables == {Table("t", cols) : cols \in AllColumnLists}

InitCompile ==
    /\ rowcount = NewCursor.rowcount
    /\ _description = NewCursor._description
    /\ _results = NewCursor._results
    /\ _index = NewCursor._index
    /\ _closed = NewCursor._closed
    /\ tables = <<>>
    /\ items = <<>>
    /\ last = CallRecord("cursor", NoStatement, NoSql, <<>>, "", RetNone, <<>>, None,
                         NewCursor)
    /\ comp \in {[stmt |-> Statement(kind, tb, <<>>, <<>>), out |-> Pending] :
                    kind \in {"create", "drop"}, tb \in AllTables}
    /\ pure = NotApplied
    /\ fetched = None

\* the dialect compiles the statement
Compile ==
    /\ comp.out = Pending
    /\ comp' = [comp EXCEPT !.out = compile(comp.stmt)]
    /\ UNCHANGED <<cursorVars, storeVars, last, pure, fetched>>

NextCompile == Compile

SpecCompile == InitCompile /\ [][NextCompile]_vars

----------------------------------------------------------------------------
(* The codec, the decoding and get_pk_constraint on their own: each         *)
(* function is applied to every argument of a bounded set.                  *)

\* the scalars of the Python dicts handed to dump
DumpValues ==
    {PyStr("a"), PyStr("1"), PyStr(""), PyInt(0), PyInt(3), PyBool(TRUE), PyFloat,
     PyNone}

\* the dicts with keys in S and values in V
Dicts(S, V) == UNION {[D -> V] : D \in SUBSET S}

PyDicts == Dicts({"id", "name"}, DumpValues)

\* the native attribute values handed to load: one of each tag of the store (S, N,
\* BOOL, NULL, L, M and, for the others, B), one without a tag, two with two tags
NativeValues ==
    {<<AttrEntry("S", PyStr("a"))>>, <<AttrEntry("N", PyStr("1"))>>,
     <<AttrEntry("BOOL", PyBool(TRUE))>>, <<AttrEntry("NULL", PyBool(TRUE))>>,
     <<AttrEntry("L", PyList)>>, <<AttrEntry("M", PyDict)>>,
     <<AttrEntry("B", PyStr("YQ=="))>>, <<>>,
     <<AttrEntry("S", PyStr("a")), AttrEntry("N", PyStr("1"))>>,
     <<AttrEntry("N", PyStr("1")), AttrEntry("S", PyStr("a"))>>}

NativeItems == Dicts({"id", "name"}, NativeValues)

\* the key schemas of the tables _describe_table returns: up to MaxCols entries
\* of distinct attributes, each HASH or RANGE, in any order
KeySchemas ==
    {ks \in UNION {[1..k -> {KeySchemaElement(n, kt) :
                                n \in Range(NameOrder), kt \in {"HASH", "RANGE"}}] :
                      k \in 0..MaxCols} :
        \A i, j \in 1..Len(ks) : ks[i].AttributeName = ks[j].AttributeName => i = j}

\* the items of the responses handed to _process_response: every item of S and N
\* attributes, and one with a BOOL attribute
ResponseItems ==
    Dicts(Range(NameOrder),
          {<<AttrEntry("S", PyStr("a"))>>, <<AttrEntry("N", PyStr("1"))>>})
    \cup {[name |-> <<AttrEntry("BOOL", PyBool(TRUE))>>]}

\* the Items of a response: up to MaxItems of them
Responses == UNION {[1..k -> ResponseItems] : k \in 0..MaxItems}

InitPure ==
    /\ rowcount = NewCursor.rowcount
    /\ _description = NewCursor._description
    /\ _results = NewCursor._results
    /\ _index = NewCursor._index
    /\ _closed = NewCursor._closed
    /\ tables = <<>>
    /\ items = <<>>
    /\ last = CallRecord("cursor", NoStatement, NoSql, <<>>, "", RetNone, <<>>, None,
                         NewCursor)
    /\ comp = NotCompiled
    /\ pure \in {Applied("dict", "", d, <<>>) : d \in PyDicts}
                \cup {Applied("item", "", it, <<>>) : it \in NativeItems}
                \cup {Applied("table", "", [KeySchema |-> ks], <<>>) :
                         ks \in KeySchemas}
                \cup {Applied("response", "", its, <<>>) : its \in Responses}
    /\ fetched = None

\* utils.dump(data)
Dump ==
    /\ pure.kind = "dict"
    /\ pure.fn = ""
    /\ pure' = [pure EXCEPT !.fn = "dump", !.out = dump(pure.arg)]
    /\ UNCHANGED <<cursorVars, storeVars, last, comp, fetched>>

\* utils.load(item) of the item dump returned
LoadDumped ==
    /\ pure.kind = "dict"
    /\ pure.fn = "dump"
    /\ pure.out.exc = ""
    /\ pure' = [pure EXCEPT !.fn = "load", !.out = load(pure.out.v)]
    /\ UNCHANGED <<cursorVars, storeVars, last, comp, fetched>>

\* utils.load(item)
Load ==
    /\ pure.kind = "item"
    /\ pure.fn = ""
    /\ pure' = [pure EXCEPT !.fn = "load", !.out = load(pure.arg)]
    /\ UNCHANGED <<cursorVars, storeVars, last, comp, fetched>>

\* dialect.get_pk_constraint(connection, name), once the table is described
GetPkConstraint ==
    /\ pure.kind = "table"
    /\ pure.fn = ""
    /\ pure' = [pure EXCEPT !.fn = "get_pk_constraint",
                             !.out = get_pk_constraint(pure.arg)]
    /\ UNCHANGED <<cursorVars, storeVars, last, comp, fetched>>

\* _process_response(response), on the Items of the response
ProcessResponse ==
    /\ pure.kind = "response"
    /\ pure.fn = ""
    /\ pure' = [pure EXCEPT !.fn = "_process_response",
                             !.out = _process_response(pure.arg)]
    /\ UNCHANGED <<cursorVars, storeVars, last, comp, fetched>>

NextPure ==
    \/ Dump
    \/ LoadDumped
    \/ Load
    \/ GetPkConstraint
    \/ ProcessResponse

SpecPure == InitPure /\ [][NextPure]_vars

----------------------------------------------------------------------------
(* The claims about the Cursor and the compilers. *)

\* the store operation that matches a kind of statement
MatchingOperation(kind) ==
    CASE kind = "create" -> "CreateTable"
      [] kind = "drop" -> "DeleteTable"
      [] OTHER -> "ExecuteStatement"

\* C1: every statement the compilers render is recognised by Cursor.execute and
\* reaches the matching store operation (unless a bound value cannot be encoded):
\* it never fails as an unknown statement; and a select of all of table t, which
\* holds the one item {id: "1"}, returns exactly the row ("1",).
C1_CompiledStatementsDispatched ==
    (last.op = "execute" /\ last.stmt.kind # "none"
        /\ EncodeParams(last.parameters).exc = "")
    => /\ last.exc # "ValueError"
       /\ last.calls = <<MatchingOperation(last.stmt.kind)>>
       /\ (/\ last.stmt = Statement("select", T_id, <<>>, <<>>)
           /\ last.resp.present
           /\ "t" \in DOMAIN items
           /\ items["t"] = {[id |-> <<AttrEntry("S", PyStr("1"))>>]})
          => last.ret = RetRows(<< <<PyStr("1")>> >>)

\* C2: once the cursor is closed, every later execute, fetchone and fetchall
\* raises, and calls no store operation.
C2_ClosedCursorFails ==
    (last.op \in {"execute", "fetchone", "fetchall"} /\ last.pre._closed)
    => (last.exc # "" /\ last.calls = <<>>)

\* the state a close leaves the cursor in
IsClosedState(c) ==
    ~c._results.present /\ ~c._description.present /\ c.rowcount = -1 /\ c._closed

\* C3: close never raises, whatever state the cursor is in; after it results and
\* description are absent, rowcount is -1 and the cursor is marked closed; and a
\* close of a cursor a close has left so changes nothing.
C3_CloseResets ==
    last.op = "close"
    => /\ last.exc = ""
       /\ IsClosedState(Cursor)
       /\ IsClosedState(last.pre) => Cursor = last.pre

\* a second close
C3_Witness == last.op = "close" /\ IsClosedState(last.pre)

\* C4: on a cursor that is not closed, fetchone returns the row at the position
\* and advances by one when the position is before the end of the buffered rows;
\* otherwise (at the end, no rows, no execute yet) it returns None, does not
\* raise, and leaves the position where it is. The rows stay as they are.
C4_Fetchone ==
    (last.op = "fetchone" /\ ~last.pre._closed)
    => LET p == last.pre
       IN /\ last.exc = ""
          /\ _results = p._results
          /\ IF p._results.present /\ p._index < Len(p._results.v)
             THEN last.ret = RetRow(p._results.v[p._index + 1])
                  /\ _index = p._index + 1
             ELSE last.ret = RetNone /\ _index = p._index

\* the second of two rows is fetched
C4_Witness ==
    /\ last.op = "fetchone"
    /\ ~last.pre._closed
    /\ last.pre._index = 1
    /\ last.ret.kind = "row"
    /\ _index = 2

\* C5: on a cursor that is not closed, fetchall returns the rows from the position
\* to the end and moves the position to the end; it returns the empty sequence,
\* not None, when the cursor is exhausted and when nothing was executed.
C5_Fetchall ==
    (last.op = "fetchall" /\ ~last.pre._closed)
    => LET p == last.pre
       IN /\ last.exc = ""
          /\ IF p._results.present
             THEN /\ last.ret = RetRows(SubSeq(p._results.v, p._index + 1,
                                               Len(p._results.v)))
                  /\ _index = Len(p._results.v)
             ELSE last.ret = RetRows(<<>>)

\* the rows and the description an answer of the store decodes to
DecodedResults(its) == Some(_process_response(its).results)

DecodedDescription(its) == Some(_process_response(its).description)

\* C6: after a successful execute the cursor describes the response of that call
\* only, at position 0: the decoded items of a query; and after a CREATE TABLE or
\* DROP TABLE no rows, no description and no position left by an earlier query.
C6_ExecuteReplaces ==
    (last.op = "execute" /\ last.exc = "")
    => /\ _index = 0
       /\ IF last.calls = <<"ExecuteStatement">>
          THEN /\ _results = DecodedResults(last.resp.v)
               /\ _description = DecodedDescription(last.resp.v)
               /\ rowcount = Len(last.resp.v)
          ELSE /\ _results.present => _results.v = <<>>
               /\ _description.present => _description.v = <<>>
               /\ rowcount <= 0

\* C7: a cursor has rowcount -1, no description and no results before any execute,
\* and rowcount stays -1 while it has no results; once it has results, rowcount is
\* their number.
C7_FreshCursor ==
    /\ last.op = "cursor"
       => rowcount = -1 /\ ~_description.present /\ ~_results.present
    /\ ~_results.present => rowcount = -1
    /\ _results.present => rowcount = Len(_results.v)

\* the text matches none of the shapes Cursor.execute knows
Unrecognised(sql) ==
    ~ExecuteAdapterValid(sql) /\ ~CreateAdapterValid(sql) /\ ~DropAdapterValid(sql)

\* C8 as it was stated: an execute of a text of no known shape raises the
\* unknown-statement error (a ValueError), has called no store operation and
\* leaves the cursor as it was.
C8_UnknownStatementOriginal ==
    (last.op = "execute" /\ Unrecognised(last.sql))
    => (last.exc = "ValueError" /\ last.calls = <<>> /\ Cursor = last.pre)

\* C8: an execute of a text of no known shape raises the unknown-statement error
\* (a ValueError) when every bound value is a str, an int or a bool, and the
\* KeyError of the encoding of the bound values otherwise; either way it has
\* called no store operation and leaves the cursor as it was.
C8_UnknownStatement ==
    (last.op = "execute" /\ Unrecognised(last.sql))
    => /\ last.exc = IF \A i \in 1..Len(last.parameters) :
                            last.parameters[i].t \in {"str", "int", "bool"}
                     THEN "ValueError" ELSE "KeyError"
       /\ last.calls = <<>>
       /\ ~last.resp.present
       /\ Cursor = last.pre

\* a text of no known shape is executed on a cursor that holds rows
C8_Witness ==
    /\ last.op = "execute"
    /\ Unrecognised(last.sql)
    /\ last.exc = "ValueError"
    /\ last.pre._results.present
    /\ Len(last.pre._results.v) > 0

\* C9: when the store raises during an execute, the execute raises the store's
\* error, having called that one store operation, and the cursor keeps the
\* results, description, rowcount and position it had; and no execute calls more
\* than one store operation.
C9_StoreFailurePropagates ==
    last.op = "execute"
    => /\ Len(last.calls) <= 1
       /\ (Len(last.calls) = 1 /\ ~last.resp.present)
          => (last.exc = "ClientError" /\ last.ret = RetNone /\ Cursor = last.pre)

\* the store raises during an execute on a cursor that holds rows
C9_Witness ==
    /\ last.op = "execute"
    /\ last.calls = <<"ExecuteStatement">>
    /\ ~last.resp.present
    /\ last.pre._results.present
    /\ Len(last.pre._results.v) > 0

\* the primary-key columns of a table, in the order they are declared
PrimaryKey(table) == SelectSeq(table.columns, LAMBDA col : col.primary_key)

\* C10: the request compiled for a table of one or two primary-key columns, of
\* types the mapping has, names in KeySchema the first declared key column as HASH
\* and the second, if any, as RANGE, and in AttributeDefinitions the same columns,
\* in the same order, with their mapped types, and no other column.
C10_CreateTableKeys ==
    (comp.stmt.kind = "create" /\ comp.out # Pending)
    => LET pk == PrimaryKey(comp.stmt.table)
       IN (/\ Len(pk) \in {1, 2}
           /\ \A i \in 1..Len(pk) : pk[i].type \in DOMAIN TYPES_SA_TO_DYNAMODB)
          => /\ comp.out.exc = ""
             /\ comp.out.sql.json
             /\ Len(comp.out.sql.obj.KeySchema) = Len(pk)
             /\ Len(comp.out.sql.obj.AttributeDefinitions) = Len(pk)
             /\ \A i \in 1..Len(pk) :
                   /\ comp.out.sql.obj.KeySchema[i].AttributeName = pk[i].name
                   /\ comp.out.sql.obj.KeySchema[i].KeyType =
                          (IF i = 1 THEN "HASH" ELSE "RANGE")
                   /\ comp.out.sql.obj.AttributeDefinitions[i].AttributeName =
                          pk[i].name
                   /\ comp.out.sql.obj.AttributeDefinitions[i].AttributeType =
                          TYPES_SA_TO_DYNAMODB[pk[i].type]

\* a table whose keys are declared ts then id, around a column that is no key
C10_Witness ==
    /\ comp.stmt.kind = "create"
    /\ comp.out # Pending
    /\ comp.out.exc = ""
    /\ Len(comp.stmt.table.columns) = 3
    /\ comp.stmt.table.columns[1] = Column("ts", "String", TRUE)
    /\ ~comp.stmt.table.columns[2].primary_key
    /\ comp.stmt.table.columns[3] = Column("id", "Integer", TRUE)

\* C11: creating a table that has no primary-key column, or more than two, fails
\* in the compiler (with the AssertionError that is its schema error): the engine
\* never reaches Cursor.execute, no store operation is called, and the store keeps
\* the tables and items it had.
C11_BadKeysFailBeforeStore ==
    [][(/\ last'.stmt.kind = "create"
        /\ Len(PrimaryKey(last'.stmt.table)) \notin {1, 2})
       => /\ last'.op = "compile"
          /\ last'.exc = "AssertionError"
          /\ last'.calls = <<>>
          /\ tables' = tables
          /\ items' = items
          /\ Cursor' = Cursor]_vars

\* a table of three key columns is refused while the store holds table t
C11_Witness ==
    /\ last.op = "compile"
    /\ last.stmt.kind = "create"
    /\ Len(PrimaryKey(last.stmt.table)) = 3
    /\ last.exc = "AssertionError"
    /\ "t" \in DOMAIN tables

\* the store type the mapping is said to give each family of column types
StoreTypeOfFamily ==
    [Integer |-> "N", BigInteger |-> "N", SmallInteger |-> "N", Numeric |-> "N",
     Float |-> "N", String |-> "S", Text |-> "S", Enum |-> "S", UUID |-> "S",
     DateTime |-> "S", LargeBinary |-> "B"]

\* C12: the request compiled for a table of one or two key columns declares each
\* key with the store type of its family, N for the integer and numeric types, S
\* for the string, text, enum, uuid and datetime types, B for binary; and a key of
\* a type outside these families fails in the compiler (with the KeyError that is
\* its unsupported-type error) instead of compiling a request.
C12_KeyTypeMapping ==
    (/\ comp.stmt.kind = "create"
     /\ comp.out # Pending
     /\ Len(PrimaryKey(comp.stmt.table)) \in {1, 2})
    => LET pk == PrimaryKey(comp.stmt.table)
       IN IF \A i \in 1..Len(pk) : pk[i].type \in DOMAIN StoreTypeOfFamily
          THEN /\ comp.out.exc = ""
               /\ \A i \in 1..Len(pk) :
                     comp.out.sql.obj.AttributeDefinitions[i].AttributeType =
                         StoreTypeOfFamily[pk[i].type]
          ELSE comp.out.exc = "KeyError"

\* the request Cursor.execute handed to the store in the last call
SentRequest == Dispatch(last.sql, last.parameters).req

\* the encoding of a bound value: {S: v}, {N: str(n)}, {BOOL: b}
EncodedValue(v) ==
    CASE v.t = "str" -> <<AttrEntry("S", v)>>
      [] v.t = "int" -> <<AttrEntry("N", PyStr(PyToStr(v)))>>
      [] OTHER -> <<AttrEntry("BOOL", v)>>

\* C13: an execute of a query statement sends ExecuteStatement one encoded
\* parameter for each bound value, in their order: {S: v} for a string, {N: the
\* decimal string of n} for an integer, {BOOL: b} with b still a boolean for a
\* boolean; and with a bound value of another type it raises and calls no store
\* operation.
C13_ParametersEncoded ==
    (last.op = "execute" /\ ExecuteAdapterValid(last.sql))
    => IF \A i \in 1..Len(last.parameters) :
              last.parameters[i].t \in {"str", "int", "bool"}
       THEN /\ last.calls = <<"ExecuteStatement">>
            /\ Len(SentRequest.Parameters) = Len(last.parameters)
            /\ \A i \in 1..Len(last.parameters) :
                  SentRequest.Parameters[i] = EncodedValue(last.parameters[i])
       ELSE last.exc # "" /\ last.calls = <<>>

\* every value of the dict is a str or an int
StrOrIntValues(data) == \A k \in DOMAIN data : data[k].t \in {"str", "int"}

\* C14: a dict whose values are strings and integers dumps without an error, and
\* loading what dump returned gives the dict back: the same keys, every string the
\* same string and every integer the same integer.
C14_RoundTrip ==
    (pure.kind = "dict" /\ pure.fn # "" /\ StrOrIntValues(pure.arg))
    => /\ pure.out.exc = ""
       /\ pure.fn = "load" => pure.out.v = pure.arg

\* the dict {"id": 3, "name": "1"} has gone through dump and load
C14_Witness ==
    /\ pure.kind = "dict"
    /\ pure.fn = "load"
    /\ pure.arg = [id |-> PyInt(3), name |-> PyStr("1")]
    /\ pure.out.exc = ""

\* every attribute of the item carries exactly one tag
SingleTagged(item) == \A k \in DOMAIN item : Len(item[k]) = 1

\* C15: load of an item whose attributes each carry exactly one tag succeeds
\* whatever the tags are: an S attribute loads as its string, an N attribute as
\* its integer, a BOOL attribute as its boolean, a NULL attribute is left out, and
\* an attribute of any other tag (L, M, B, ...) has an entry.
C15_LoadEveryTag ==
    (pure.kind = "item" /\ pure.fn = "load" /\ SingleTagged(pure.arg))
    => /\ pure.out.exc = ""
       /\ \A k \in DOMAIN pure.arg :
             LET e == pure.arg[k][1]
             IN CASE e.tag = "S" -> pure.out.v[k] = e.val
                  [] e.tag = "N" -> pure.out.v[k] = PyInt(ParseInt(e.val.s))
                  [] e.tag = "BOOL" -> pure.out.v[k] = e.val
                  [] e.tag = "NULL" -> k \notin DOMAIN pure.out.v
                  [] OTHER -> k \in DOMAIN pure.out.v

\* C16: has_table(name) returns whether name is one of the tables the store
\* holds; a DROP TABLE executed without an error leaves the store without the
\* table, so that has_table then returns False; and describing a table the store
\* does not hold raises the store's error.
C16_HasTable ==
    /\ (last.op = "has_table" /\ last.exc = "")
       => last.ret = RetBool(last.stmt.table.name \in DOMAIN tables)
    /\ (last.op = "execute" /\ last.stmt.kind = "drop" /\ last.exc = "")
       => last.stmt.table.name \notin DOMAIN tables
    /\ (last.op = "describe_table" /\ last.stmt.table.name \notin DOMAIN tables)
       => last.exc = "ClientError"

\* has_table("t") returns False on a cursor that still holds the rows of a select
\* from t: the table has been dropped since
C16_Witness ==
    /\ last.op = "has_table"
    /\ last.stmt.table.name = "t"
    /\ last.ret = RetBool(FALSE)
    /\ _results.present
    /\ Len(_results.v) > 0

\* the entries of a key schema that have a key type
KeysOfType(ks, kt) == SelectSeq(ks, LAMBDA e : e.KeyType = kt)

\* C17: for a table of one HASH key, or of one HASH and one RANGE key, whichever
\* the description lists first, get_pk_constraint returns the HASH column and then
\* the RANGE column; and for a description of more than two key-schema entries it
\* raises (the ValueError that is its schema error).
C17_PrimaryKeyOrder ==
    (pure.kind = "table" /\ pure.fn = "get_pk_constraint")
    => LET ks == pure.arg.KeySchema
           hash == KeysOfType(ks, "HASH")
           range == KeysOfType(ks, "RANGE")
       IN /\ (Len(ks) \in {1, 2} /\ Len(hash) = 1 /\ Len(range) = Len(ks) - 1)
             => /\ pure.out.exc = ""
                /\ pure.out.v.constrained_columns =
                       [i \in 1..Len(ks) |->
                           IF i = 1 THEN hash[1].AttributeName
                           ELSE range[1].AttributeName]
          /\ Len(ks) > 2 => pure.out.exc = "ValueError"

\* C18: once the connection is closed, an execute on a cursor it created fails
\* without calling a store operation.
C18_ClosedConnectionFailsFast ==
    [][(last.op = "connection_close" /\ last'.op = "execute")
       => (last'.exc # "" /\ last'.calls = <<>>)]_vars

\* the bound values of the last call can be encoded
Encodable == EncodeParams(last.parameters).exc = ""

\* C19 as it was stated: execute tries the shape of a create, then of a drop,
\* then of a query, and calls the one store operation of the first shape that
\* matches.
C19_DispatchOrderOriginal ==
    (last.op = "execute" /\ Encodable /\ ~Unrecognised(last.sql))
    => last.calls = <<IF CreateAdapterValid(last.sql) THEN "CreateTable"
                      ELSE IF DropAdapterValid(last.sql) THEN "DeleteTable"
                      ELSE "ExecuteStatement">>

\* C19: execute tries the shape of a query, then of a create, then of a drop,
\* and calls the one store operation of the first shape that matches, never that
\* of a later one.
C19_DispatchOrder ==
    (last.op = "execute" /\ Encodable /\ ~Unrecognised(last.sql))
    => last.calls = <<IF ExecuteAdapterValid(last.sql) THEN "ExecuteStatement"
                      ELSE IF CreateAdapterValid(last.sql) THEN "CreateTable"
                      ELSE "DeleteTable">>

\* a text of all three shapes is executed, and the store answers
C19_Witness ==
    /\ last.op = "execute"
    /\ ExecuteAdapterValid(last.sql)
    /\ CreateAdapterValid(last.sql)
    /\ DropAdapterValid(last.sql)
    /\ last.calls = <<"ExecuteStatement">>
    /\ last.resp.present

\* every attribute of every item is one S or one N value
Decodable(its) ==
    \A i \in 1..Len(its) : \A n \in DOMAIN its[i] :
        Len(its[i][n]) = 1 /\ its[i][n][1].tag \in {"S", "N"}

\* the place of a name in the lexicographic order
Place(n) == CHOOSE i \in 1..Len(NameOrder) : NameOrder[i] = n

\* the last item of a response that has an attribute
LastWith(its, n) ==
    CHOOSE i \in 1..Len(its) :
        n \in DOMAIN its[i] /\ \A k \in (i + 1)..Len(its) : n \notin DOMAIN its[k]

\* C20: a response whose attributes are S and N values decodes to a description
\* whose names are the attribute names of all its items, each once, in
\* lexicographic order, and to one row for each item, in their order; every row
\* has one position for each name of the description, holding the item's value
\* of that attribute (the string of an S, the integer of an N) or None where the
\* item has no such attribute; and the type of a name is that of its tag in the
\* last item that has it.
C20_DecodedShape ==
    (pure.kind = "response" /\ pure.fn = "_process_response" /\ Decodable(pure.arg))
    => LET its == pure.arg
           desc == pure.out.description
           rows == pure.out.results
       IN /\ pure.out.exc = ""
          /\ {desc[j].name : j \in 1..Len(desc)} =
                 UNION {DOMAIN its[i] : i \in 1..Len(its)}
          /\ \A j, k \in 1..Len(desc) :
                j < k => Place(desc[j].name) < Place(desc[k].name)
          /\ Len(rows) = Len(its)
          /\ \A i \in 1..Len(its) :
                /\ Len(rows[i]) = Len(desc)
                /\ \A j \in 1..Len(desc) :
                      LET n == desc[j].name
                      IN rows[i][j] =
                            IF n \notin DOMAIN its[i] THEN PyNone
                            ELSE IF its[i][n][1].tag = "S" THEN its[i][n][1].val
                            ELSE PyInt(ParseInt(its[i][n][1].val.s))
          /\ \A j \in 1..Len(desc) :
                desc[j].type_code =
                    IF its[LastWith(its, desc[j].name)][desc[j].name][1].tag = "S"
                    THEN "str" ELSE "int"

\* two items: id is an N in the first and an S in the second, which has no ts
C20_Witness ==
    /\ pure.kind = "response"
    /\ pure.fn = "_process_response"
    /\ pure.arg = <<[id |-> <<AttrEntry("N", PyStr("1"))>>,
                     ts |-> <<AttrEntry("S", PyStr("a"))>>],
                    [id |-> <<AttrEntry("S", PyStr("a"))>>]>>
    /\ pure.out.exc = ""
    /\ pure.out.description[1].type_code = "str"
    /\ pure.out.results[2] = <<PyStr("a"), PyNone>>

\* C21: load raises ValueError for an item with an attribute that carries no tag,
\* and for one with an attribute that carries more than one tag: it returns no
\* value read from one of the tags.
C21_LoadRejectsTagCount ==
    (/\ pure.kind = "item"
     /\ pure.fn = "load"
     /\ \E k \in DOMAIN pure.arg : Len(pure.arg[k]) # 1)
    => pure.out.exc = "ValueError"

\* C22: in every state of the cursor, results and description are both absent
\* or both present; with results present the position is between 0 and their
\* number, and rowcount is their number; with results absent the position is 0.
C22_CursorInvariant ==
    /\ _results.present <=> _description.present
    /\ _results.present
       => /\ 0 <= _index
          /\ _index <= Len(_results.v)
          /\ rowcount = Len(_results.v)
    /\ ~_results.present => _index = 0

\* two rows are buffered and both are fetched
C22_Witness ==
    /\ last.op \in {"fetchone", "fetchall"}
    /\ _results.present
    /\ _description.present
    /\ Len(_results.v) = 2
    /\ _index = 2

\* C23: from a query execute that succeeded to the next execute or close, the
\* rows the fetchone and fetchall calls have returned, put together in the order
\* of the calls, are the buffered rows from the first up to the position: none
\* twice, none left out, in their order; and they are all the buffered rows once
\* one of the calls was a fetchall.
C23_FetchedIsPrefix ==
    fetched.present
    => /\ _results.present
       /\ _index <= Len(_results.v)
       /\ fetched.v.rows = SubSeq(_results.v, 1, _index)
       /\ fetched.v.all => fetched.v.rows = _results.v

\* a fetchone and then a fetchall have returned the two buffered rows
C23_Witness ==
    /\ fetched.present
    /\ fetched.v.all
    /\ Len(fetched.v.rows) = 2
    /\ last.op = "fetchall"
    /\ last.pre._index = 1

====
